---- MODULE Spec2Model ----
(***************************************************************************)
(* A model of the front-end widgets of quantum-machine-catalog:            *)
(*   - app.js: the Lissajous oscilloscope, its control buttons and the     *)
(*     scripted chat (page "app"), and the chat alone typing lines of     *)
(*     the script in their full length (page "chat");                      *)
(*   - dual_universe_branch_visual_canvas.jsx: DualUniverseCanvas, its      *)
(*     signal functions, render and animation effect (page "dual");        *)
(*   - drawCurve of DualUniverseCanvas over arbitrary sample sequences     *)
(*     (page "curve");                                                     *)
(*   - FieldSignalApp (unnamed/part_001): the audio graph effect,          *)
(*     teardown and the oscilloscope frame loop (page "field"), and its    *)
(*     settings, presets and local storage (page "settings": the same      *)
(*     component while the clock stands and no frame or interval fires).   *)
(* Each widget runs in a page of its own; `page` says which one a          *)
(* behaviour is about, so the reachable states are the union of the        *)
(* widgets' states.                                                        *)
(*                                                                         *)
(* Numbers are fixed point: frequencies and noise in hundredths, angles    *)
(* in milliradians, sine values and amplitudes in thousandths, the app.js  *)
(* time t in frames of dt = 0.016 s, the canvas time in milliseconds.      *)
(***************************************************************************)
EXTENDS Integers, Sequences, FiniteSets, TLC

\* ------------------------------------------------------------------ bounds
\* app.js: t is capped at MaxT frames; at most MaxRaf frame callbacks pending.
MaxT == 2
MaxRaf == 2
\* DualUniverseCanvas: the animation time is capped at MaxTime milliseconds.
MaxTime == 100
\* drawCurve: sample sequences of up to MaxSamples samples.
MaxSamples == 4
\* app.js chat: the script is cut to MaxLines lines (script() yields 10
\* lines); next to the oscilloscope the lines are cut to MaxTextLen
\* characters.
MaxLines == 1
MaxTextLen == 3
\* FieldSignalApp: the clock runs to MaxNow units of 10 s, and at most
\* MaxIntervals auto-stop intervals are set and not yet cleared.
MaxNow == 2
MaxIntervals == 2

\* --------------------------------------------------------------- arithmetic
Min(a, b) == IF a <= b THEN a ELSE b
Max(a, b) == IF a >= b THEN a ELSE b

\* Math.PI in milliradians.
PiMilli == 3142

\* Math.sin on milliradians, in thousandths: the angle is reduced to
\* [-pi/2, pi/2] and the Taylor polynomial up to x^7 is summed in fixed point.
SinReduce(a) ==
    LET r0 == a % (2 * PiMilli)
        r1 == IF r0 > PiMilli THEN r0 - 2 * PiMilli ELSE r0
    IN  IF r1 > PiMilli \div 2 THEN PiMilli - r1
        ELSE IF r1 < -(PiMilli \div 2) THEN -PiMilli - r1
        ELSE r1

Sin(a) ==
    LET x  == SinReduce(a)
        x2 == (x * x) \div 1000
        t3 == (x2 * x) \div 6000
        t5 == (t3 * x2) \div 20000
        t7 == (t5 * x2) \div 42000
    IN  x - t3 + t5 - t7

\* a * b for a in thousandths: the product in b's unit.
MulMilli(a, b) == (a * b) \div 1000

VARIABLES
    page,
    \* app.js (src/app.js:13-16)
    running, glow, t, f1, f2, phase, noise, jam, lastTick,
    \* app.js: drawFrame callbacks pending with requestAnimationFrame
    rafPending,
    \* app.js chat (src/app.js:135); chatPlaying is the chat's `playing`
    chatPlaying, chatTimer, timers,
    \* observation of app.js: what the last drawFrame call did, the handler
    \* that last wrote each parameter, and the value of t held by a pause
    frame, origin, heldT,
    \* DualUniverseCanvas state (dual_universe_branch_visual_canvas.jsx.js:17-24)
    playing, time, xMax, splitX, rafRef,
    \* DualUniverseCanvas: the tick callbacks pending with
    \* requestAnimationFrame, whether the component is mounted, and the canvas
    \* (devicePixelRatio, width, height, the context's scale)
    rafQueue, compMounted, dpr, canvasW, canvasH, ctxScale,
    \* observation of DualUniverseCanvas: what the last tick call did, the
    \* number of render calls since the canvas size or dpr last changed, and
    \* the time held by a pause
    dualFrame, renders, heldTime,
    \* drawCurve of DualUniverseCanvas: the values sampler(x) returns along
    \* the loop, the loop's position, penDown, and the path call each sample
    \* got
    samples, ci, penDown, calls,
    \* FieldSignalApp (unnamed/part_001:9-28): isOn, duration, the audio refs
    \* (acRef, gRef, panRef, lOscRef, rOscRef, analyserRef), dataArrayRef,
    \* rafRef (fsRafRef), stopAtRef
    isOn, duration, audio, dataArray, fsRafRef, stopAt,
    \* FieldSignalApp: the draw callbacks pending with requestAnimationFrame,
    \* the number of auto-stop intervals set and not cleared, the clock in
    \* units of 10 s, whether an exception left a handler, and what the last
    \* teardown() call found and did
    fsQueue, intervals, now, fieldErr, tdLast,
    \* FieldSignalApp settings: baseHz, beatHz, gain, wave, preset and pan
    \* (cfg), localStorage and whether its methods throw, and what the last
    \* page reload did to the settings
    cfg, storage, storageMode, lastReload

paramVars == <<f1, f2, phase, noise, jam, origin>>
chatVars == <<chatPlaying, chatTimer, timers>>
appVars == <<running, glow, t, paramVars, lastTick, rafPending, chatVars,
             frame, heldT>>

dualVars == <<playing, time, xMax, splitX, rafRef, rafQueue, compMounted,
              dpr, canvasW, canvasH, ctxScale, dualFrame, renders,
              heldTime>>

curveVars == <<samples, ci, penDown, calls>>
settingsVars == <<cfg, storage, storageMode, lastReload>>
fieldVars == <<isOn, duration, audio, dataArray, fsRafRef, stopAt, fsQueue,
               intervals, now, fieldErr, tdLast, settingsVars>>

vars == <<page, appVars, dualVars, curveVars, fieldVars>>

\* What an action of one page leaves alone: the other pages.
notApp == <<dualVars, curveVars, fieldVars>>
notDual == <<appVars, curveVars, fieldVars>>
notCurve == <<appVars, dualVars, fieldVars>>
notField == <<appVars, dualVars, curveVars>>

\* ================================================================== app.js
\* The calibrated parameters (let f1 = 1.2, f2 = 2.3, phase = Math.PI/3,
\* noise = 0.0), in hundredths and milliradians.
F1Default == 120
F2Default == 230
PhaseDefault == PiMilli \div 3
NoiseDefault == 0
\* noise while jammed (0.8) and after Regenerate (0.1), in hundredths.
NoiseJam == 80
NoiseRegen == 10

\* Math.random() in thousandths; the draws of one handler, in call order.
RndTriples == { <<0, 500, 999>>, <<999, 0, 500>> }

\* rnd(a, b) with Math.random() = u / 1000.
rnd(a, b, u) == a + (u * (b - a)) \div 1000

\* The timestamps requestAnimationFrame hands to a callback, in ms.
TsValues == {0, 300, 400}

ParamNames == {"f1", "f2", "phase", "noise"}

\* No value of t is held (no pause since the last drawn frame or reset).
NoT == -1

\* frame: what the last drawFrame call did. kind is "none" before the first
\* call, "idle" when it returned at once, "drew" when it drew; a drawn frame
\* records the t it sampled, the handler that had last written each of the
\* four parameters it sampled, and whether it is the first frame drawn after
\* a pause.
NoOrigin == [n \in ParamNames |-> "none"]
NoFrame == [kind |-> "none", t |-> 0, origin |-> NoOrigin, resumed |-> FALSE]
IdleFrame == [kind |-> "idle", t |-> 0, origin |-> NoOrigin, resumed |-> FALSE]

OneOrigin(o) == \A m, n \in ParamNames : o[m] = o[n]

InitApp ==
    /\ running = FALSE /\ glow = FALSE
    /\ t = 0
    /\ f1 = F1Default /\ f2 = F2Default /\ phase = PhaseDefault
    /\ noise = NoiseDefault /\ jam = FALSE
    /\ lastTick = 0
    /\ rafPending = 0
    /\ chatPlaying = FALSE /\ chatTimer = 0 /\ timers = {}
    /\ frame = NoFrame
    /\ origin = [n \in ParamNames |-> "init"]
    /\ heldT = NoT

\* drawFrame as it would be without its first line: it draws and requests
\* the next frame whether or not running is set.
DrawFrameBodyUngated(ts) ==
    /\ t < MaxT
    /\ frame' = [kind |-> "drew", t |-> t, origin |-> origin,
                 resumed |-> heldT # NoT]
    /\ heldT' = NoT
    /\ lastTick' = IF ts # 0 /\ ts - lastTick > 250 THEN ts ELSE lastTick
    /\ t' = t + 1
    /\ rafPending' = (rafPending - 1) + 1

\* function drawFrame(ts), one pending callback run by the browser.
DrawFrameBody(ts) ==
    IF ~running
    THEN /\ lastTick' = 0
         /\ rafPending' = rafPending - 1
         /\ frame' = IdleFrame
         /\ UNCHANGED <<t, heldT>>
    ELSE /\ t < MaxT
         /\ frame' = [kind |-> "drew", t |-> t, origin |-> origin,
                      resumed |-> heldT # NoT]
         /\ heldT' = NoT
         /\ lastTick' = IF ts # 0 /\ ts - lastTick > 250 THEN ts ELSE lastTick
         /\ t' = t + 1
         \* the callback that ran left the queue, requestAnimationFrame(drawFrame)
         \* put one back
         /\ rafPending' = (rafPending - 1) + 1

\* The trace and the dot of drawFrame, horizontal offsets from cx in
\* thousandths of a pixel. tm is t in frames of 16 ms, u a Math.random()
\* result in thousandths, A = Math.min(w, h) / 3 in pixels.
ScopeAmps == {50, 100}
RandomValues == {0, 500, 999}

\* tt with the loop index one ahead.
TraceTtOffByOne(tm, i) ==
    tm * 16 + ((i + 1) * (IF jam THEN 14000 ELSE 8000)) \div 1400

\* tt = t + i/steps * (jam ? 14 : 8), in ms
TraceTt(tm, i) == tm * 16 + (i * (IF jam THEN 14000 ELSE 8000)) \div 1400

\* 2*Math.PI*f1*tt + phase, in milliradians
TraceAngle(tt) == (((2 * PiMilli * f1) \div 100) * tt) \div 1000 + phase

\* x - cx of sample i of the trace
TraceDx(A, tm, i, u) ==
    A * Sin(TraceAngle(TraceTt(tm, i))) + ((u - 500) * noise * 4) \div 100

\* xd - cx of the dot
DotDx(A, tm) == A * Sin(TraceAngle(tm * 16))

\* drawFrame as it would be if a frame drawn while jammed ended the jam.
DrawFrameEndsJam ==
    /\ page = "app"
    /\ rafPending > 0
    /\ \E ts \in TsValues : DrawFrameBody(ts)
    /\ jam' = (jam /\ ~running)
    /\ UNCHANGED <<page, running, glow, f1, f2, phase, noise, origin,
                   chatVars>>
    /\ UNCHANGED notApp

DrawFrame ==
    /\ page = "app"
    /\ rafPending > 0
    /\ \E ts \in TsValues : DrawFrameBody(ts)
    /\ UNCHANGED <<page, running, glow, paramVars, chatVars>>
    /\ UNCHANGED notApp

\* Start as it would be if it restarted the trace: t = 0 on every start.
StartBodyRestarts ==
    IF ~running
    THEN /\ rafPending < MaxRaf
         /\ running' = TRUE
         /\ rafPending' = rafPending + 1
         /\ t' = 0
    ELSE UNCHANGED <<running, rafPending, t>>

\* $('#startBtn').onclick
StartBody ==
    IF ~running
    THEN /\ rafPending < MaxRaf
         /\ running' = TRUE
         /\ rafPending' = rafPending + 1
         /\ UNCHANGED t
    ELSE UNCHANGED <<running, rafPending, t>>

StartBtn ==
    /\ page = "app"
    /\ StartBody
    /\ UNCHANGED <<page, glow, paramVars, lastTick, chatVars, frame, heldT>>
    /\ UNCHANGED notApp

\* $('#pauseBtn').onclick
PauseBody ==
    /\ running' = FALSE
    /\ heldT' = IF running THEN t ELSE heldT
    /\ UNCHANGED <<t, rafPending>>

PauseBtn ==
    /\ page = "app"
    /\ PauseBody
    /\ UNCHANGED <<page, glow, paramVars, lastTick, chatVars, frame>>
    /\ UNCHANGED notApp

\* Jam as it would be if un-jamming did not restore the phase.
JamBodyKeepsPhase(u) ==
    /\ jam' = ~jam
    /\ noise' = IF jam' THEN NoiseJam ELSE NoiseDefault
    /\ f1' = IF jam' THEN rnd(80, 220, u[1]) ELSE F1Default
    /\ f2' = IF jam' THEN rnd(160, 350, u[2]) ELSE F2Default
    /\ phase' = IF jam' THEN rnd(0, PiMilli, u[3]) ELSE phase
    /\ origin' = IF jam' THEN [n \in ParamNames |-> "jam"]
                 ELSE [origin EXCEPT !["f1"] = "jam", !["f2"] = "jam",
                                     !["noise"] = "jam"]

\* $('#jamBtn').onclick
JamBody(u) ==
    /\ jam' = ~jam
    /\ noise' = IF jam' THEN NoiseJam ELSE NoiseDefault
    /\ f1' = IF jam' THEN rnd(80, 220, u[1]) ELSE F1Default
    /\ f2' = IF jam' THEN rnd(160, 350, u[2]) ELSE F2Default
    /\ phase' = IF jam' THEN rnd(0, PiMilli, u[3]) ELSE PhaseDefault
    /\ origin' = [n \in ParamNames |-> "jam"]

JamBtn ==
    /\ page = "app"
    /\ \E u \in RndTriples : JamBody(u)
    /\ UNCHANGED <<page, running, glow, t, lastTick, rafPending, chatVars, frame, heldT>>
    /\ UNCHANGED notApp

\* Calibrate as it would be if it left the noise as it is.
CalBodyKeepsNoise ==
    /\ f1' = F1Default /\ f2' = F2Default /\ phase' = PhaseDefault
    /\ jam' = FALSE
    /\ origin' = [n \in ParamNames |-> "cal"]
    /\ UNCHANGED noise

\* $('#calBtn').onclick
CalBody ==
    /\ f1' = F1Default /\ f2' = F2Default /\ phase' = PhaseDefault
    /\ noise' = NoiseDefault /\ jam' = FALSE
    /\ origin' = [n \in ParamNames |-> "cal"]

CalBtn ==
    /\ page = "app"
    /\ CalBody
    /\ UNCHANGED <<page, running, glow, t, lastTick, rafPending, chatVars, frame, heldT>>
    /\ UNCHANGED notApp

\* $('#glowBtn').onclick
GlowBtn ==
    /\ page = "app"
    /\ glow' = ~glow
    /\ UNCHANGED <<page, running, t, paramVars, lastTick, rafPending, chatVars, frame, heldT>>
    /\ UNCHANGED notApp

\* Reset as it would be if it also stopped the scope.
ResetBtnStops ==
    /\ page = "app"
    /\ t' = 0
    /\ heldT' = NoT
    /\ running' = FALSE
    /\ UNCHANGED <<page, glow, paramVars, lastTick, rafPending, chatVars, frame>>
    /\ UNCHANGED notApp

\* $('#resetBtn').onclick
ResetBtn ==
    /\ page = "app"
    /\ t' = 0
    /\ heldT' = NoT
    /\ UNCHANGED <<page, running, glow, paramVars, lastTick, rafPending, chatVars, frame>>
    /\ UNCHANGED notApp

\* $('#safeStartBtn').onclick: bindControls() assigns the same handlers
\* again, then running = true and one more frame is requested.
SafeStartBody ==
    /\ rafPending < MaxRaf
    /\ running' = TRUE
    /\ rafPending' = rafPending + 1

SafeStartBtn ==
    /\ page = "app"
    /\ SafeStartBody
    /\ UNCHANGED <<page, glow, t, paramVars, lastTick, chatVars, frame, heldT>>
    /\ UNCHANGED notApp

\* ------------------------------------------------------------- app.js chat
\* A pending setTimeout of the chat is the closure it will run: kind "tick"
\* (the typing of one message: text length len, position k, step inc, and
\* the length shown in its bubble) or "step" (the next line, lines[i]).
\* chatTimer holds the id the last setTimeout returned, 0 for null.

\* text.length of the lines typed, and the Math.random() draws (in
\* thousandths) behind speed = 12 + Math.random()*10. On page "chat" the
\* lines have the lengths of two lines of script(): "And press Jam to make
\* the scope sing." (37) and "Then ship the demo. Iterate the brain
\* later." (44).
TextLens == IF page = "chat" THEN {37, 44} ELSE {MaxTextLen}
SpeedDraws == {0, 999}

\* Math.round(num / den) for num >= 0, den > 0.
Round(num, den) == (2 * num + den) \div (2 * den)

\* Math.max(1, Math.round(text.length/speed))
TypeInc(len, u) == Max(1, Round(len * 1000, 12000 + u * 10))

TimerIds(T) == { tm.id : tm \in T }

\* The id setTimeout returns: one no pending timer has.
FreshId(T) == CHOOSE n \in 1..(Cardinality(T) + 1) : n \notin TimerIds(T)

\* tick(): show text.slice(0, k), advance k, and set the next timer.
ChatTick(T, ct, pl, i, len, k, inc) ==
    LET k2 == k + inc
        id == FreshId(T)
    IN  /\ timers' = T \cup {[id |-> id,
                               kind |-> IF k2 <= len THEN "tick" ELSE "step",
                               i |-> i, len |-> len, k |-> k2, inc |-> inc,
                               shown |-> k]}
        /\ chatTimer' = id
        /\ chatPlaying' = pl

\* step(): past the last line playing = false; else the next line's bubble
\* is appended and its first tick() runs at once.
ChatStep(T, ct, pl, i) ==
    IF i >= MaxLines
    THEN /\ chatPlaying' = FALSE
         /\ timers' = T
         /\ chatTimer' = ct
    ELSE \E len \in TextLens, u \in SpeedDraws :
            ChatTick(T, ct, pl, i + 1, len, 0, TypeInc(len, u))

\* clear(): the pending timers left once clearTimeout(chatTimer) has run.
Cleared(T, ct) == { tm \in T : ct = 0 \/ tm.id # ct }

\* play() as it would be without `if(playing) return`.
PlayBodyUnguarded(T, ct, pl) == ChatStep(T, ct, TRUE, 0)

\* play(): typeSequence(lines) unless a sequence is playing.
PlayBody(T, ct, pl) ==
    IF pl
    THEN /\ chatPlaying' = pl /\ timers' = T /\ chatTimer' = ct
    ELSE ChatStep(T, ct, TRUE, 0)

PlayBtn ==
    /\ page \in {"app", "chat"}
    /\ PlayBody(timers, chatTimer, chatPlaying)
    /\ UNCHANGED <<page, running, glow, t, paramVars, lastTick, rafPending, frame, heldT>>
    /\ UNCHANGED notApp

\* clear()
ClearBtn ==
    /\ page \in {"app", "chat"}
    /\ timers' = Cleared(timers, chatTimer)
    /\ chatPlaying' = FALSE
    /\ UNCHANGED chatTimer
    /\ UNCHANGED <<page, running, glow, t, paramVars, lastTick, rafPending, frame, heldT>>
    /\ UNCHANGED notApp

\* regen(): clear(), new parameters, play().
RegenParams(u) ==
    /\ f1' = rnd(90, 200, u[1])
    /\ f2' = rnd(140, 320, u[2])
    /\ phase' = rnd(0, PiMilli, u[3])
    /\ noise' = NoiseRegen
    /\ origin' = [n \in ParamNames |-> "regen"]

RegenBtn ==
    /\ page = "app"
    /\ \E u \in RndTriples : RegenParams(u)
    /\ PlayBody(Cleared(timers, chatTimer), chatTimer, FALSE)
    /\ UNCHANGED <<page, running, glow, t, jam, lastTick, rafPending, frame, heldT>>
    /\ UNCHANGED notApp

\* A pending chat timer fires: its closure (tick or step) runs.
ChatTimerFires ==
    /\ page \in {"app", "chat"}
    /\ \E tm \in timers :
          IF tm.kind = "tick"
          THEN ChatTick(timers \ {tm}, chatTimer, chatPlaying,
                        tm.i, tm.len, tm.k, tm.inc)
          ELSE ChatStep(timers \ {tm}, chatTimer, chatPlaying, tm.i)
    /\ UNCHANGED <<page, running, glow, t, paramVars, lastTick, rafPending, frame, heldT>>
    /\ UNCHANGED notApp

\* ====================================================== DualUniverseCanvas
\* x, xMax and splitX are in hundredths, amplitudes, slopes and curve values
\* in thousandths, frequencies in hundredths, phases in milliradians, time
\* in milliseconds. The sliders of xMax and splitX are modelled; the other
\* parameters stay at the values useState gives them.
BaseAmp == 1000
BaseFreq == 115
BasePhase == 0
U1Slope == 350
U1Amp == 900
U1Freq == 95
U1Phase == 400
U2Slope == -300
U2Amp == 750
U2Freq == 122
U2Phase == -200
\* speed = 1.0, in hundredths
Speed == 100

\* slider(xMax, setXMax, 6, 20, 0.1) and slider(splitX, setSplitX, 1, 9, 0.01)
XMaxValues == {600, 1000}
SplitXValues == {400, 600, 900}

\* 2 * Math.PI * freq, in milliradians
TwoPiF(freq) == (2 * PiMilli * freq) \div 100

\* baseY(x, t)
BaseY(x, tm) ==
    MulMilli(BaseAmp,
             Sin((TwoPiF(BaseFreq) * x) \div xMax + BasePhase + (6 * tm) \div 10))

\* junctionY(t)
JunctionY(tm) == BaseY(splitX, tm)

\* The phase term's denominator as it would be without the clamp.
PhaseDenomUnclamped == (xMax - splitX) * 10000

\* Math.max(1e-6, xMax - splitX), in millionths (xMax and splitX are in
\* hundredths).
PhaseDenom == Max(1, (xMax - splitX) * 10000)

\* 2 * Math.PI * freq * (dx / Math.max(1e-6, xMax - splitX)). A positive
\* xMax - splitX is at least 0.01 and is the denominator; otherwise the
\* denominator is 1e-6, dx / 1e-6 is dx * 10^4 hundredths, and the angle is
\* taken modulo 2 pi.
PhaseTerm(freq, dx) ==
    IF PhaseDenom > 1
    THEN (TwoPiF(freq) * dx) \div (PhaseDenom \div 10000)
    ELSE (((TwoPiF(freq) * dx) % (2 * PiMilli)) * (10000 % (2 * PiMilli)))
            % (2 * PiMilli)

\* u1Y(x, t)
U1Y(x, tm) ==
    LET dx == Max(0, x - splitX)
    IN  JunctionY(tm) + (U1Slope * dx) \div 100
        + MulMilli(U1Amp, Sin(PhaseTerm(U1Freq, dx) + U1Phase + (7 * tm) \div 10))

\* u2Y(x, t)
U2Y(x, tm) ==
    LET dx == Max(0, x - splitX)
    IN  JunctionY(tm) + (U2Slope * dx) \div 100
        + MulMilli(U2Amp, Sin(PhaseTerm(U2Freq, dx) + U2Phase + (65 * tm) \div 100))

\* A JavaScript number a sampler returns: a finite value, or Number.NaN.
JsNumber(n) == [kind |-> "num", v |-> n]
JsNaN == [kind |-> "NaN", v |-> 0]

\* The x at which the functions are evaluated, in hundredths: in and out of
\* each branch's domain for every slider setting.
SampleXs == {0, 300, 400, 600, 900, 1000}

\* (x) => (x <= splitX ? baseY(x, t) : Number.NaN)
BaseSampler(x, tm) == IF x <= splitX THEN JsNumber(BaseY(x, tm)) ELSE JsNaN

\* The universe-1 sampler as it would be without its domain test.
U1SamplerUnguarded(x, tm) == JsNumber(U1Y(x, tm))

\* (x) => (x >= splitX ? u1Y(x, t) : Number.NaN)
U1Sampler(x, tm) == IF x >= splitX THEN JsNumber(U1Y(x, tm)) ELSE JsNaN

\* (x) => (x >= splitX ? u2Y(x, t) : Number.NaN)
U2Sampler(x, tm) == IF x >= splitX THEN JsNumber(U2Y(x, tm)) ELSE JsNaN

\* The canvas element as laid out, in CSS pixels (style height 420px), and
\* the width and height a new canvas element has.
Client == [w |-> 300, h |-> 420]
NewCanvas == [w |-> 300, h |-> 150]
\* window.devicePixelRatio
DprValues == {1, 2}
\* now - last of a tick, in ms
ElapsedMs == {16, 70}

\* dualFrame: what the last tick call did. kind is "none" before the first
\* call, "stale" when it returned at `if (!mounted) return`, "ran" otherwise;
\* a tick that ran records the playing flag it saw, the time it rendered,
\* the time it added, whether it rendered and whether it requested a frame,
\* and whether it is the first tick to run after a pause and a resume.
NoTick == [kind |-> "none", playing |-> FALSE, t |-> 0, dTime |-> 0,
           rendered |-> FALSE, scheduled |-> FALSE, resumed |-> FALSE]
StaleTick == [kind |-> "stale", playing |-> FALSE, t |-> 0, dTime |-> 0,
              rendered |-> FALSE, scheduled |-> FALSE, resumed |-> FALSE]

RafIds(Q) == { cb.id : cb \in Q }

\* The id requestAnimationFrame returns: one no pending callback has.
FreshRaf(Q) == CHOOSE n \in 1..(Cardinality(Q) + 1) : n \notin RafIds(Q)

\* requestAnimationFrame(tick) by the effect instance that is current.
Request(Q) == Q \cup {[id |-> FreshRaf(Q), live |-> TRUE]}

\* The cleanup as it would be without cancelAnimationFrame.
CleanupNoCancel(Q, ref) == { [id |-> cb.id, live |-> FALSE] : cb \in Q }

\* The effect's cleanup: mounted = false for the instance's callbacks, and
\* cancelAnimationFrame(rafRef.current).
Cleanup(Q, ref) ==
    { [id |-> cb.id, live |-> FALSE] : cb \in { c \in Q : c.id # ref } }

\* A change of playing, speed or render: React runs the cleanup of the
\* effect and the effect again, which requests a frame.
EffectRerun(Q, ref) ==
    LET Q1 == Cleanup(Q, ref)
    IN  /\ rafQueue' = Request(Q1)
        /\ rafRef' = FreshRaf(Q1)

InitDual ==
    /\ playing = TRUE /\ time = 0
    /\ xMax = 1000 /\ splitX = 400
    /\ compMounted = TRUE
    \* the effect ran once after the first render
    /\ rafRef = FreshRaf({})
    /\ rafQueue = Request({})
    /\ dpr \in DprValues
    /\ canvasW = NewCanvas.w /\ canvasH = NewCanvas.h /\ ctxScale = 1
    /\ dualFrame = NoTick /\ renders = 0 /\ heldTime = NoT

\* render without the reset: the context keeps the scale it has.
KeepTransform(sc) == sc

\* ctx.setTransform(1, 0, 0, 1, 0, 0) on a context whose scale is sc
SetTransformIdentity(sc) == 1

\* render(): the canvas is resized when its size differs from the CSS size
\* times dpr (which resets the context), the transform is reset, then scaled.
Render ==
    LET w == Max(1, Client.w) * dpr
        h == Max(1, Client.h) * dpr
        resized == canvasW # w \/ canvasH # h
        sc0 == IF resized THEN 1 ELSE ctxScale
    IN  /\ canvasW' = w
        /\ canvasH' = h
        /\ ctxScale' = SetTransformIdentity(sc0) * dpr
        /\ renders' = Min(renders + 1, 2)

\* tick as it would be if its time update were not gated by playing.
TickTimeUngated(dt) == time + (dt * Speed) \div 100

\* if (playing) setTime((t) => t + dt * speed): the time after a tick
TickTime(dt) == IF playing THEN time + (dt * Speed) \div 100 ELSE time

\* rafRef.current = requestAnimationFrame(tick), the last line of tick
TickRequest(Q) == Request(Q)

\* tick(now) of a live effect instance with Math.min(0.05, (now - last)/1000)
\* = dt ms: setTime when playing, render(), request the next frame; the
\* setTime changes render, so React reruns the effect.
TickRuns(Q0, dt) ==
    LET t1 == TickTime(dt)
        Q1 == TickRequest(Q0)
        ref1 == IF Q1 = Q0 THEN rafRef ELSE FreshRaf(Q0)
    IN  /\ t1 <= MaxTime
        /\ time' = t1
        /\ Render
        /\ dualFrame' = [kind |-> "ran", playing |-> playing, t |-> time,
                         dTime |-> t1 - time, rendered |-> TRUE,
                         scheduled |-> Q1 # Q0,
                         resumed |-> playing /\ heldTime # NoT]
        /\ heldTime' = IF playing THEN NoT ELSE heldTime
        /\ IF t1 # time
           THEN EffectRerun(Q1, ref1)
           ELSE rafQueue' = Q1 /\ rafRef' = ref1

DualTick ==
    /\ page = "dual"
    /\ \E cb \in rafQueue :
          IF ~cb.live
          THEN /\ rafQueue' = rafQueue \ {cb}
               /\ dualFrame' = StaleTick
               /\ UNCHANGED <<time, rafRef, canvasW, canvasH, ctxScale,
                              renders, heldTime>>
          ELSE \E el \in ElapsedMs : TickRuns(rafQueue \ {cb}, Min(50, el))
    /\ UNCHANGED <<page, playing, xMax, splitX, compMounted, dpr>>
    /\ UNCHANGED notDual

\* onClick={() => setPlaying((p) => !p)}
TogglePlaying ==
    /\ page = "dual" /\ compMounted
    /\ playing' = ~playing
    /\ heldTime' = IF playing THEN time ELSE heldTime
    /\ EffectRerun(rafQueue, rafRef)
    /\ UNCHANGED <<page, time, xMax, splitX, compMounted, dpr, canvasW,
                   canvasH, ctxScale, dualFrame, renders>>
    /\ UNCHANGED notDual

\* onClick={() => setTime(0)}: React renders again only if time changes.
ResetTime ==
    /\ page = "dual" /\ compMounted
    /\ time' = 0
    /\ heldTime' = NoT
    /\ IF time # 0
       THEN EffectRerun(rafQueue, rafRef)
       ELSE UNCHANGED <<rafQueue, rafRef>>
    /\ UNCHANGED <<page, playing, xMax, splitX, compMounted, dpr,
                   canvasW, canvasH, ctxScale, dualFrame, renders>>
    /\ UNCHANGED notDual

\* slider(xMax, setXMax, ...) onChange
SetXMax ==
    /\ page = "dual" /\ compMounted
    /\ \E v \in XMaxValues :
          /\ xMax' = v
          /\ IF v # xMax
             THEN EffectRerun(rafQueue, rafRef)
             ELSE UNCHANGED <<rafQueue, rafRef>>
    /\ UNCHANGED <<page, playing, time, splitX, compMounted, dpr,
                   canvasW, canvasH, ctxScale, dualFrame, renders, heldTime>>
    /\ UNCHANGED notDual

\* slider(splitX, setSplitX, ...) onChange
SetSplitX ==
    /\ page = "dual" /\ compMounted
    /\ \E v \in SplitXValues :
          /\ splitX' = v
          /\ IF v # splitX
             THEN EffectRerun(rafQueue, rafRef)
             ELSE UNCHANGED <<rafQueue, rafRef>>
    /\ UNCHANGED <<page, playing, time, xMax, compMounted, dpr,
                   canvasW, canvasH, ctxScale, dualFrame, renders, heldTime>>
    /\ UNCHANGED notDual

\* The window is zoomed or moved to a screen of another pixel ratio.
Relayout ==
    /\ page = "dual" /\ compMounted
    /\ \E r \in DprValues : r # dpr /\ dpr' = r
    /\ renders' = 0
    /\ UNCHANGED <<page, playing, time, xMax, splitX, rafRef, rafQueue,
                   compMounted, canvasW, canvasH, ctxScale, dualFrame,
                   heldTime>>
    /\ UNCHANGED notDual

\* The component unmounts: the effect's cleanup runs.
Unmount ==
    /\ page = "dual" /\ compMounted
    /\ compMounted' = FALSE
    /\ rafQueue' = Cleanup(rafQueue, rafRef)
    /\ UNCHANGED <<page, playing, time, xMax, splitX, rafRef, dpr,
                   canvasW, canvasH, ctxScale, dualFrame, renders, heldTime>>
    /\ UNCHANGED notDual

NextDual ==
    \/ DualTick \/ TogglePlaying \/ ResetTime \/ SetXMax \/ SetSplitX
    \/ Relayout \/ Unmount

\* ================================================================ drawCurve
\* What sampler(x) can return: a finite number, NaN, or an infinity.
SampleKinds == {"num", "NaN", "Infinity"}

\* Number.isFinite(y)
IsFinite(y) == y = "num"

SampleSeqs == UNION { [1..n -> SampleKinds] : n \in 0..MaxSamples }

InitCurve ==
    /\ samples \in SampleSeqs
    /\ ci = 1 /\ penDown = FALSE /\ calls = <<>>

\* drawCurve as it was before the pen was lifted on gaps: a non-finite
\* sample is skipped and the pen stays down.
CurveCallNoLift(y, pen) ==
    IF ~IsFinite(y) THEN [call |-> "none", pen |-> pen]
    ELSE IF ~pen THEN [call |-> "moveTo", pen |-> TRUE]
    ELSE [call |-> "lineTo", pen |-> TRUE]

\* One pass of the for loop of drawCurve on the sample y: the path call
\* issued ("none" for a sample that is skipped) and the new penDown.
CurveCall(y, pen) ==
    IF ~IsFinite(y) THEN [call |-> "none", pen |-> FALSE]
    ELSE IF ~pen THEN [call |-> "moveTo", pen |-> TRUE]
    ELSE [call |-> "lineTo", pen |-> TRUE]

DrawCurveStep ==
    /\ page = "curve"
    /\ ci <= Len(samples)
    /\ LET r == CurveCall(samples[ci], penDown)
       IN  /\ calls' = Append(calls, r.call)
           /\ penDown' = r.pen
    /\ ci' = ci + 1
    /\ UNCHANGED <<page, samples>>
    /\ UNCHANGED notCurve

NextCurve == DrawCurveStep

\* =========================================================== FieldSignalApp
AudioRefs == {"acRef", "gRef", "panRef", "lOscRef", "rOscRef", "analyserRef"}
NoAudio == [r \in AudioRefs |-> "null"]
LiveAudio == [r \in AudioRefs |-> "node"]

\* Session Length slider, in units of 10 s (0 = unlimited)
DurationValues == {0, 1}

\* ref.current.m(): a TypeError when ref.current is null
MemberCall(ref) == IF ref = "null" THEN "TypeError" ELSE "ok"

\* teardown as it would be with plain member calls, ref.current.m()
PlainCall(ref) == IF ref = "null" THEN "TypeError" ELSE "ok"

\* ref.current?.m(): nothing is called when ref.current is null
OptionalCall(ref) == IF ref = "null" THEN "ok" ELSE MemberCall(ref)

\* The id requestAnimationFrame returns: one no pending callback has.
FreshFs(Q, ref) == CHOOSE n \in 1..(Cardinality(Q) + 2) : n \notin Q /\ n # ref

\* teardown as it would be without cancelAnimationFrame(rafRef.current).
TeardownKeepsFrame(a, ref, Q) ==
    LET outcomes == { OptionalCall(a[r]) : r \in AudioRefs }
        threw == "TypeError" \in outcomes
    IN  [audio |-> IF threw THEN a ELSE NoAudio,
         rafRef |-> 0,
         queue |-> Q,
         threw |-> threw,
         empty |-> a = NoAudio /\ ref = 0 /\ Q = {}]

\* teardown() on the refs a and the pending draw callbacks Q: the pending
\* frame is cancelled and rafRef nulled, the oscillators are stopped inside
\* try/catch, the nodes disconnected and the context closed through ?.,
\* and then the refs are nulled. An exception ends the function where it is
\* thrown.
Teardown(a, ref, Q) ==
    LET Q1 == IF ref # 0 THEN Q \ {ref} ELSE Q
        outcomes == { OptionalCall(a[r]) : r \in AudioRefs }
        threw == "TypeError" \in outcomes
    IN  [audio |-> IF threw THEN a ELSE NoAudio,
         rafRef |-> 0,
         queue |-> Q1,
         threw |-> threw,
         empty |-> a = NoAudio /\ ref = 0 /\ Q = {}]

\* tdLast, the record of a teardown() call with result r: whether nothing
\* existed when it was called, whether it threw, and whether it left every
\* audio ref and rafRef null.
TeardownRecord(r) ==
    [ran |-> TRUE, empty |-> r.empty, threw |-> r.threw,
     allNull |-> r.audio = NoAudio /\ r.rafRef = 0]

\* teardown() called twice in a row.
TeardownTwice(a, ref, Q) ==
    LET r1 == Teardown(a, ref, Q)
    IN  IF r1.threw THEN r1 ELSE Teardown(r1.audio, r1.rafRef, r1.queue)

NoTeardown == [ran |-> FALSE, empty |-> FALSE, threw |-> FALSE,
               allNull |-> FALSE]

\* ------------------------------------------------ FieldSignalApp: settings
\* Numeric settings are in hundredths (baseHz 174 is 17400), duration in
\* units of 10 s. A numeric string is the sequence of its characters.
Digits == <<"0", "1", "2", "3", "4", "5", "6", "7", "8", "9">>
DigitOf(c) == CHOOSE d \in 0..9 : Digits[d + 1] = c

RECURSIVE NatStr(_)
NatStr(n) ==
    IF n < 10 THEN <<Digits[n + 1]>>
    ELSE Append(NatStr(n \div 10), Digits[(n % 10) + 1])

\* String(val) of a number of at most two decimals: the shortest decimal,
\* "174", "0.35", "-0.1".
NumStr(h) ==
    LET a == IF h < 0 THEN -h ELSE h
        f == a % 100
        frac == IF f = 0 THEN <<>>
                ELSE IF f % 10 = 0 THEN <<".", Digits[(f \div 10) + 1]>>
                ELSE <<".", Digits[(f \div 10) + 1], Digits[(f % 10) + 1]>>
        body == NatStr(a \div 100) \o frac
    IN  IF h < 0 THEN <<"-">> \o body ELSE body

RECURSIVE DigitsVal(_)
DigitsVal(cs) ==
    IF cs = <<>> THEN 0
    ELSE 10 * DigitsVal(SubSeq(cs, 1, Len(cs) - 1)) + DigitOf(cs[Len(cs)])

\* Number(v) of a decimal string, in hundredths.
StrNum(cs) ==
    LET neg == cs # <<>> /\ cs[1] = "-"
        u == IF neg THEN Tail(cs) ELSE cs
        dots == { i \in 1..Len(u) : u[i] = "." }
        dot == IF dots = {} THEN Len(u) + 1 ELSE CHOOSE i \in dots : TRUE
        fp == SubSeq(u, dot + 1, Len(u))
        fracH == IF Len(fp) = 0 THEN 0
                 ELSE IF Len(fp) = 1 THEN 10 * DigitOf(fp[1])
                 ELSE 10 * DigitOf(fp[1]) + DigitOf(fp[2])
        val == 100 * DigitsVal(SubSeq(u, 1, dot - 1)) + fracH
    IN  IF neg THEN -val ELSE val

\* localStorage: the keys fieldsig_<key> that exist, with their strings.
\* storageMode "throws" is a browser whose localStorage methods throw.
StorageModes == {"ok", "throws"}
EmptyStore == [k \in {} |-> <<>>]

\* localStorage.setItem(key, v)
SetItem(store, mode, key, v) ==
    IF mode = "throws" THEN [threw |-> TRUE, store |-> store]
    ELSE [threw |-> FALSE,
          store |-> [k \in DOMAIN store \cup {key} |->
                        IF k = key THEN v ELSE store[k]]]

\* localStorage.getItem(key): null when the key does not exist
GetItem(store, mode, key) ==
    IF mode = "throws" THEN [threw |-> TRUE, found |-> FALSE, v |-> <<>>]
    ELSE IF key \in DOMAIN store
         THEN [threw |-> FALSE, found |-> TRUE, v |-> store[key]]
         ELSE [threw |-> FALSE, found |-> FALSE, v |-> <<>>]

\* save as it would be without try/catch.
SaveUnguarded(store, mode, key, str) == SetItem(store, mode, key, str)

\* save(key, val), str = String(val): try { setItem } catch {}
Save(store, mode, key, str) ==
    [SetItem(store, mode, key, str) EXCEPT !.threw = FALSE]

\* loadNum(key, fallback)
LoadNum(store, mode, key, fallback) ==
    LET r == GetItem(store, mode, key)
    IN  [threw |-> FALSE,
         v |-> IF r.threw \/ ~r.found THEN fallback ELSE StrNum(r.v)]

\* loadStr(key, fallback)
LoadStr(store, mode, key, fallback) ==
    LET r == GetItem(store, mode, key)
    IN  [threw |-> FALSE,
         v |-> IF r.threw \/ ~r.found THEN fallback ELSE r.v]

\* const presets
Presets ==
    ("Lymph Node Relax" :>
        [base |-> 17400, beat |-> 400, wave |-> "sine", pan |-> 0])
    @@ ("Sinus Drain" :>
        [base |-> 22200, beat |-> 500, wave |-> "sine", pan |-> 0])
    @@ ("Muscle Calm" :>
        [base |-> 11000, beat |-> 800, wave |-> "triangle", pan |-> 0])
    @@ ("Deep Focus" :>
        [base |-> 43200, beat |-> 1000, wave |-> "sawtooth", pan |-> 0])
    @@ ("Sleep Aid" :>
        [base |-> 14400, beat |-> 300, wave |-> "sine", pan |-> -10])

\* The fallbacks of the useState initialisers.
DefaultCfg ==
    [baseHz |-> 17400, beatHz |-> 400, gain |-> 35, wave |-> "sine",
     preset |-> "Lymph Node Relax", pan |-> 0]

\* The settings in the order the save effect writes them.
SettingKeys ==
    <<"baseHz", "beatHz", "gain", "wave", "preset", "pan", "duration">>

\* The value of a setting: the fields of c, and the duration d in hundredths
\* of a second.
SettingOf(c, d, key) == IF key = "duration" THEN d * 1000 ELSE c[key]

\* String(val) of the setting key
SettingStr(c, d, key) ==
    IF key \in {"wave", "preset"} THEN c[key]
    ELSE NumStr(SettingOf(c, d, key))

\* The save effect from its i-th save call on; an exception ends it.
RECURSIVE SaveFrom(_, _, _, _, _)
SaveFrom(i, store, mode, c, d) ==
    IF i > Len(SettingKeys) THEN [threw |-> FALSE, store |-> store]
    ELSE LET r == Save(store, mode, SettingKeys[i],
                       SettingStr(c, d, SettingKeys[i]))
         IN  IF r.threw THEN r ELSE SaveFrom(i + 1, r.store, mode, c, d)

\* useEffect(() => { save("baseHz", baseHz); ... save("duration", duration) })
SaveEffect(store, mode, c, d) == SaveFrom(1, store, mode, c, d)

\* The preset effect as it would be if it also restored the intensity.
PresetEffectResetsGain(c) ==
    IF c.preset \notin DOMAIN Presets
    THEN [c EXCEPT !.gain = DefaultCfg.gain]
    ELSE LET p == Presets[c.preset]
         IN  [c EXCEPT !.baseHz = p.base, !.beatHz = p.beat,
                       !.wave = p.wave, !.pan = p.pan,
                       !.gain = DefaultCfg.gain]

\* The preset effect: the settings after it has run on the settings c.
PresetEffect(c) ==
    IF c.preset \notin DOMAIN Presets THEN c
    ELSE LET p == Presets[c.preset]
         IN  [c EXCEPT !.baseHz = p.base, !.beatHz = p.beat,
                       !.wave = IF "wave" \in DOMAIN p THEN p.wave ELSE @,
                       !.pan = IF "pan" \in DOMAIN p THEN p.pan ELSE @]

\* The useState initialisers: the settings loaded from storage.
LoadedCfg(store, mode) ==
    [baseHz |-> LoadNum(store, mode, "baseHz", DefaultCfg.baseHz).v,
     beatHz |-> LoadNum(store, mode, "beatHz", DefaultCfg.beatHz).v,
     gain |-> LoadNum(store, mode, "gain", DefaultCfg.gain).v,
     wave |-> LoadStr(store, mode, "wave", DefaultCfg.wave).v,
     preset |-> LoadStr(store, mode, "preset", DefaultCfg.preset).v,
     pan |-> LoadNum(store, mode, "pan", DefaultCfg.pan).v]

LoadedDuration(store, mode) ==
    LoadNum(store, mode, "duration", 0).v \div 1000

\* Whether one of the loads of the initialisers lets an exception out.
LoadThrew(store, mode) ==
    \/ \E k \in {"baseHz", "beatHz", "gain", "pan", "duration"} :
          LoadNum(store, mode, k, 0).threw
    \/ \E k \in {"wave", "preset"} : LoadStr(store, mode, k, "").threw

\* A render in which preset is new (the first render, or one after
\* setPreset): the save effect and the preset effect run in this order on
\* the settings c0, and the settings the preset effect changed are saved by
\* the save effect of the render that follows.
PresetRender(store, mode, c0, d) ==
    LET s1 == SaveEffect(store, mode, c0, d)
        c1 == PresetEffect(c0)
        s2 == IF c1 = c0 THEN s1 ELSE SaveEffect(s1.store, mode, c1, d)
    IN  [cfg |-> c1, store |-> s2.store, threw |-> s1.threw \/ s2.threw]

\* The component mounts: the initialisers load the settings, then the
\* effects of the first render run in order, the save effect and the preset
\* effect; the settings the preset effect changed are saved by the save
\* effect of the next render.
Mount(store, mode) ==
    LET c0 == LoadedCfg(store, mode)
        d0 == LoadedDuration(store, mode)
        r == PresetRender(store, mode, c0, d0)
    IN  [cfg |-> r.cfg, duration |-> d0, store |-> r.store, loaded |-> c0,
         threw |-> LoadThrew(store, mode) \/ r.threw]

\* What localStorage holds when the page is opened: nothing (a first
\* visit), or the settings an earlier version of the page saved, with a
\* preset that is no longer in the table.
StaleStore ==
    SaveEffect(EmptyStore, "ok",
               [DefaultCfg EXCEPT !.baseHz = 20000, !.preset = "Retired"], 1).store

InitialStores == {EmptyStore, StaleStore}

\* lastReload: whether the page has been reloaded, and the settings whose
\* value after the mount differs from the value before the reload.
NoReload == [ran |-> FALSE, lost |-> {}]

InitField ==
    \* the effect of the first render runs with isOn = false: teardown()
    LET r == Teardown(NoAudio, 0, {})
    IN  /\ isOn = FALSE
        /\ storageMode \in StorageModes
        /\ \E s0 \in InitialStores :
              LET mt == Mount(s0, storageMode)
              IN  /\ cfg = mt.cfg /\ duration = mt.duration
                  /\ storage = mt.store
                  /\ fieldErr = (r.threw \/ mt.threw)
        /\ lastReload = NoReload
        /\ audio = r.audio /\ fsRafRef = r.rafRef /\ fsQueue = r.queue
        /\ tdLast = TeardownRecord(r)
        /\ dataArray = "null" /\ stopAt = 0
        /\ intervals = 0 /\ now = 0

\* setIsOn(false) while isOn: React runs the effect's cleanup, teardown(),
\* and then the effect, whose isOn = false branch calls teardown() again.
StopSession ==
    LET r == TeardownTwice(audio, fsRafRef, fsQueue)
    IN  /\ isOn' = FALSE
        /\ audio' = r.audio /\ fsRafRef' = r.rafRef /\ fsQueue' = r.queue
        /\ fieldErr' = (fieldErr \/ r.threw)
        /\ tdLast' = TeardownRecord(r)

\* setIsOn(true): the effect builds the audio graph, starts the
\* oscilloscope (draw() requests its first frame) and, when duration > 0,
\* sets stopAtRef and an interval of 250 ms.
StartSession ==
    LET id == FreshFs(fsQueue, fsRafRef)
    IN  /\ isOn' = TRUE
        /\ audio' = LiveAudio
        /\ dataArray' = "array"
        /\ fsRafRef' = id
        /\ fsQueue' = fsQueue \cup {id}
        /\ IF duration > 0
           THEN /\ intervals < MaxIntervals
                /\ stopAt' = now + duration
                /\ intervals' = intervals + 1
           ELSE /\ stopAt' = 0
                /\ UNCHANGED intervals
        /\ UNCHANGED <<fieldErr, tdLast>>

\* The pages that show FieldSignalApp.
FieldPages == {"field", "settings"}

\* The session state a change of a setting leaves alone.
sessionVars == <<isOn, audio, dataArray, fsRafRef, stopAt, fsQueue, intervals,
                 now, tdLast>>

\* A render in which a setting is new: the save effect writes the settings
\* c and the duration d.
SaveChanged(c, d) ==
    LET sv == SaveEffect(storage, storageMode, c, d)
    IN  /\ storage' = sv.store
        /\ fieldErr' = (fieldErr \/ sv.threw)

\* onClick={() => setIsOn(v => !v)}
ToggleOn ==
    /\ page \in FieldPages
    /\ IF isOn
       THEN StopSession /\ UNCHANGED <<dataArray, stopAt, intervals>>
       ELSE StartSession
    /\ UNCHANGED <<page, duration, now, settingsVars>>
    /\ UNCHANGED notField

\* The interval callback as it would be without setIsOn(false).
IntervalFiresClearsOnly ==
    /\ page = "field"
    /\ intervals > 0
    /\ intervals' = IF stopAt # 0 /\ now >= stopAt
                    THEN intervals - 1 ELSE intervals
    /\ UNCHANGED <<isOn, audio, fsRafRef, fsQueue, fieldErr, tdLast>>
    /\ UNCHANGED <<page, duration, dataArray, stopAt, now, settingsVars>>
    /\ UNCHANGED notField

\* The callback of an auto-stop interval, every 250 ms.
IntervalFires ==
    /\ page = "field"
    /\ intervals > 0
    /\ IF stopAt # 0 /\ now >= stopAt
       THEN /\ intervals' = intervals - 1
            /\ IF isOn
               THEN StopSession
               ELSE UNCHANGED <<isOn, audio, fsRafRef, fsQueue, fieldErr,
                                tdLast>>
       ELSE UNCHANGED <<isOn, audio, fsRafRef, fsQueue, fieldErr, tdLast,
                        intervals>>
    /\ UNCHANGED <<page, duration, dataArray, stopAt, now, settingsVars>>
    /\ UNCHANGED notField

\* draw(), a pending frame callback of the oscilloscope: it requests the
\* next frame first, then reads the analyser and draws.
FieldDraw ==
    /\ page = "field"
    /\ \E id \in fsQueue :
          LET Q0 == fsQueue \ {id}
              new == FreshFs(Q0, fsRafRef)
          IN  /\ fsRafRef' = new
              /\ fsQueue' = Q0 \cup {new}
    /\ UNCHANGED <<page, isOn, duration, audio, dataArray, stopAt, intervals,
                   now, fieldErr, tdLast, settingsVars>>
    /\ UNCHANGED notField

\* Session Length slider: setDuration(parseInt(e.target.value))
SetDuration ==
    /\ page \in FieldPages
    /\ \E d \in DurationValues :
          d # duration /\ duration' = d /\ SaveChanged(cfg, d)
    /\ UNCHANGED <<page, sessionVars, cfg, storageMode, lastReload>>
    /\ UNCHANGED notField

\* performance.now() passes ten more seconds.
ClockTick ==
    /\ page = "field"
    /\ now < MaxNow
    /\ now' = now + 1
    /\ UNCHANGED <<page, isOn, duration, audio, dataArray, fsRafRef, stopAt,
                   fsQueue, intervals, fieldErr, tdLast, settingsVars>>
    /\ UNCHANGED notField

\* The values the modelled knobs and selects are moved to. (The Beat Offset
\* and Pan knobs are left alone: beatHz and pan change by presets only.)
BaseHzKnob == {20000}
GainKnob == {50}
WaveChoices == {"sine", "square"}
PresetChoices == {"Lymph Node Relax", "Sleep Aid"}

\* Knob "Base Frequency": setBaseHz(parseFloat(e.target.value))
SetBaseHz ==
    /\ page = "settings"
    /\ \E v \in BaseHzKnob :
          LET c1 == [cfg EXCEPT !.baseHz = v]
          IN  c1 # cfg /\ cfg' = c1 /\ SaveChanged(c1, duration)
    /\ UNCHANGED <<page, sessionVars, duration, storageMode, lastReload>>
    /\ UNCHANGED notField

\* Knob "Intensity": setGain(parseFloat(e.target.value))
SetGain ==
    /\ page = "settings"
    /\ \E v \in GainKnob :
          LET c1 == [cfg EXCEPT !.gain = v]
          IN  c1 # cfg /\ cfg' = c1 /\ SaveChanged(c1, duration)
    /\ UNCHANGED <<page, sessionVars, duration, storageMode, lastReload>>
    /\ UNCHANGED notField

\* select "Waveform": setWave(e.target.value)
SetWave ==
    /\ page = "settings"
    /\ \E w \in WaveChoices :
          LET c1 == [cfg EXCEPT !.wave = w]
          IN  c1 # cfg /\ cfg' = c1 /\ SaveChanged(c1, duration)
    /\ UNCHANGED <<page, sessionVars, duration, storageMode, lastReload>>
    /\ UNCHANGED notField

\* select "Preset": setPreset(e.target.value); the render that follows runs
\* the save effect and the preset effect.
SelectPreset ==
    /\ page = "settings"
    /\ \E name \in PresetChoices :
          LET r == PresetRender(storage, storageMode,
                                [cfg EXCEPT !.preset = name], duration)
          IN  /\ name # cfg.preset
              /\ cfg' = r.cfg
              /\ storage' = r.store
              /\ fieldErr' = (fieldErr \/ r.threw)
    /\ UNCHANGED <<page, sessionVars, duration, storageMode, lastReload>>
    /\ UNCHANGED notField

\* The page is reloaded: the document with its audio graph, frames and
\* intervals is gone, localStorage stays, and the component mounts again.
Reload ==
    LET mt == Mount(storage, storageMode)
        r == Teardown(NoAudio, 0, {})
    IN  /\ page = "settings"
        /\ cfg' = mt.cfg /\ duration' = mt.duration /\ storage' = mt.store
        /\ fieldErr' = (fieldErr \/ mt.threw \/ r.threw)
        /\ lastReload' =
              [ran |-> TRUE,
               lost |-> { k \in { SettingKeys[i] : i \in DOMAIN SettingKeys } :
                            SettingOf(cfg, duration, k)
                              # SettingOf(mt.cfg, mt.duration, k) }]
        /\ isOn' = FALSE
        /\ audio' = r.audio /\ fsRafRef' = r.rafRef /\ fsQueue' = r.queue
        /\ tdLast' = TeardownRecord(r)
        /\ dataArray' = "null" /\ stopAt' = 0 /\ intervals' = 0
        /\ UNCHANGED <<page, now, storageMode>>
        /\ UNCHANGED notField

NextField ==
    \/ ToggleOn \/ IntervalFires \/ FieldDraw \/ SetDuration \/ ClockTick

NextSettings ==
    \/ SetBaseHz \/ SetGain \/ SetWave \/ SelectPreset \/ Reload

\* ============================================================ specification
\* The widgets that are not on the page of a behaviour: nothing is mounted
\* and nothing is pending.
AppAbsent ==
    /\ running = FALSE /\ glow = FALSE /\ t = 0
    /\ f1 = F1Default /\ f2 = F2Default /\ phase = PhaseDefault
    /\ noise = NoiseDefault /\ jam = FALSE /\ lastTick = 0 /\ rafPending = 0
    /\ chatPlaying = FALSE /\ chatTimer = 0 /\ timers = {}
    /\ frame = NoFrame /\ origin = [n \in ParamNames |-> "init"]
    /\ heldT = NoT

DualAbsent ==
    /\ playing = FALSE /\ time = 0 /\ xMax = 1000 /\ splitX = 400
    /\ compMounted = FALSE /\ rafRef = 0 /\ rafQueue = {}
    /\ dpr = 1
    /\ canvasW = NewCanvas.w /\ canvasH = NewCanvas.h /\ ctxScale = 1
    /\ dualFrame = NoTick /\ renders = 0 /\ heldTime = NoT

CurveAbsent ==
    /\ samples = <<>> /\ ci = 1 /\ penDown = FALSE /\ calls = <<>>

FieldAbsent ==
    /\ isOn = FALSE /\ duration = 0 /\ audio = NoAudio /\ dataArray = "null"
    /\ fsRafRef = 0 /\ stopAt = 0 /\ fsQueue = {} /\ intervals = 0 /\ now = 0
    /\ fieldErr = FALSE /\ tdLast = NoTeardown
    /\ cfg = DefaultCfg /\ storage = EmptyStore /\ storageMode = "ok"
    /\ lastReload = NoReload

NextApp ==
    \/ DrawFrame \/ StartBtn \/ PauseBtn \/ JamBtn \/ CalBtn \/ GlowBtn
    \/ ResetBtn \/ SafeStartBtn \/ PlayBtn \/ ClearBtn \/ RegenBtn
    \/ ChatTimerFires

Init ==
    \/ page \in {"app", "chat"} /\ InitApp /\ DualAbsent /\ CurveAbsent
          /\ FieldAbsent
    \/ page = "dual" /\ InitDual /\ AppAbsent /\ CurveAbsent /\ FieldAbsent
    \/ page = "curve" /\ InitCurve /\ AppAbsent /\ DualAbsent /\ FieldAbsent
    \/ page \in FieldPages /\ InitField /\ AppAbsent /\ DualAbsent
          /\ CurveAbsent

Next == NextApp \/ NextDual \/ NextCurve \/ NextField \/ NextSettings

Spec == Init /\ [][Next]_vars

\* The program with its timers running: an interval set with setInterval
\* keeps firing every 250 ms for as long as it is not cleared.
FairSpec == Init /\ [][Next]_vars /\ WF_vars(IntervalFires)

\* ================================================================== claims

\* C1: junction continuity. In every reachable state of DualUniverseCanvas
\* both branch functions evaluated at x = splitX return the base curve's
\* value at splitX: u1Y(splitX, t) = u2Y(splitX, t) = baseY(splitX, t).
C1_JunctionContinuity ==
    (page = "dual") =>
        /\ U1Y(splitX, time) = BaseY(splitX, time)
        /\ U2Y(splitX, time) = BaseY(splitX, time)

\* C2: in app.js at most one drawFrame callback is pending with
\* requestAnimationFrame at any time.
C2_AtMostOneFrame == (page = "app") => rafPending <= 1

\* C3: a drawFrame callback that runs while running is false draws nothing,
\* does not advance t and requests no frame (the pending callbacks are the
\* others that were pending); so a callback requests a frame only if
\* running was true when it was entered.
C3_IdleCallback ==
    [][ DrawFrame =>
          /\ ~running => /\ t' = t
                         /\ rafPending' = rafPending - 1
                         /\ frame'.kind = "idle"
          /\ rafPending' >= rafPending => running ]_vars

C3_Witness == page = "app" /\ frame.kind = "idle" /\ ~running

C5_TimeKept ==
    [][ /\ (PauseBtn \/ StartBtn \/ SafeStartBtn) => t' = t
        /\ TogglePlaying => time' = time
        /\ (DrawFrame /\ frame'.kind = "drew" /\ heldT # NoT) =>
               frame'.t = heldT
        /\ (DualTick /\ dualFrame'.kind = "ran" /\ heldTime # NoT) =>
               dualFrame'.t = heldTime
        /\ (page = "app" /\ t # 0 /\ t' = 0) => ResetBtn
        /\ (page = "dual" /\ time # 0 /\ time' = 0) => ResetTime ]_vars

C5_Witness ==
    /\ page = "app" /\ running
    /\ frame.kind = "drew" /\ frame.resumed /\ frame.t > 0

\* C6: Jam, Calibrate and Regenerate each replace f1, f2, phase and noise as
\* one step with respect to the frame callbacks: between handlers the four
\* values come from one and the same handler, and so do the four values
\* every drawFrame call samples.
C6_WholeParameterSet ==
    (page = "app") =>
        /\ OneOrigin(origin)
        /\ frame.kind = "drew" => OneOrigin(frame.origin)

C6_Witness ==
    /\ page = "app" /\ frame.kind = "drew"
    /\ frame.origin = [n \in ParamNames |-> "jam"]
    /\ origin = [n \in ParamNames |-> "regen"]

\* C7: the app.js driver is the two-state machine Stopped/Running. running
\* becomes true only by Start or Safe Start and false only by Pause, no
\* other handler or callback changes it, and no state is terminal: Pause can
\* always be pressed, and Start and Safe Start whenever the model has room
\* for one more pending frame.
C7_DriverMachine ==
    /\ [][ (page = "app") =>
             /\ (~running /\ running') => (StartBtn \/ SafeStartBtn)
             /\ (running /\ ~running') => PauseBtn
             /\ (JamBtn \/ CalBtn \/ GlowBtn \/ ResetBtn \/ PlayBtn
                   \/ RegenBtn \/ ClearBtn \/ ChatTimerFires \/ DrawFrame)
                  => running' = running ]_vars
    /\ [] ( (page = "app") =>
              /\ ENABLED PauseBtn
              /\ rafPending < MaxRaf =>
                    (ENABLED StartBtn /\ ENABLED SafeStartBtn) )

C7_Witness == page = "app" /\ ~running /\ heldT # NoT /\ frame.kind = "drew"

\* C8: stopping what is stopped is a no-op that raises nothing. In app.js
\* Pause pressed while running is false leaves running, t, the parameters
\* and the pending frames unchanged; in FieldSignalApp a teardown() call that
\* finds no audio graph and no frame throws nothing and leaves every audio
\* ref and rafRef null, and no exception leaves a handler.
C8_StopIsIdempotent ==
    /\ [][ (PauseBtn /\ ~running) =>
             UNCHANGED <<running, t, f1, f2, phase, noise, jam, rafPending>>
         ]_vars
    /\ [] ( /\ (tdLast.ran /\ tdLast.empty) =>
                 (~tdLast.threw /\ tdLast.allNull)
            /\ ~fieldErr )

C8_Witness ==
    /\ page = "field" /\ ~isOn /\ dataArray = "array"
    /\ tdLast.ran /\ tdLast.empty /\ audio = NoAudio /\ fsRafRef = 0

\* C9: render resets the transform before it scales. After one or more
\* render calls with the canvas size and dpr unchanged the context's scale
\* is exactly dpr, and the canvas is the CSS size times dpr.
C9_ScaleIsDpr ==
    (page = "dual" /\ renders >= 1) =>
        /\ ctxScale = dpr
        /\ canvasW = Client.w * dpr /\ canvasH = Client.h * dpr

C9_Witness == page = "dual" /\ renders = 2 /\ dpr = 2 /\ ctxScale = 2

\* C10: in drawCurve a lineTo is issued for a sample only if that sample and
\* the one before it are both finite; a finite sample that is first or
\* follows a non-finite one gets a moveTo; a non-finite sample gets no call.
C10_PenLift ==
    (page = "curve") =>
        \A j \in 1..Len(calls) :
            /\ calls[j] = "lineTo" =>
                   (j > 1 /\ IsFinite(samples[j]) /\ IsFinite(samples[j - 1]))
            /\ (IsFinite(samples[j]) /\ (j = 1 \/ ~IsFinite(samples[j - 1])))
                   => calls[j] = "moveTo"
            /\ ~IsFinite(samples[j]) => calls[j] = "none"

C10_Witness ==
    /\ page = "curve"
    /\ samples = <<"num", "num", "NaN", "num">>
    /\ calls = <<"moveTo", "lineTo", "none", "moveTo">>

\* C11, as claimed: the functions baseY, u1Y and u2Y themselves return a
\* non-finite value outside their branch's domain (baseY for x > splitX,
\* u1Y and u2Y for x < splitX).
C11_FunctionsNonFinite ==
    (page = "dual") =>
        \A x \in SampleXs :
            /\ x > splitX => ~IsFinite(JsNumber(BaseY(x, time)).kind)
            /\ x < splitX => /\ ~IsFinite(JsNumber(U1Y(x, time)).kind)
                             /\ ~IsFinite(JsNumber(U2Y(x, time)).kind)

\* C11, amended: the non-finite value comes from the samplers render passes
\* to drawCurve. Outside its domain each sampler returns NaN and inside it
\* the function's finite value; u1Y and u2Y themselves are finite at every
\* x, and left of the split they return their value at the split.
C11_SamplersNonFinite ==
    (page = "dual") =>
        \A x \in SampleXs :
            /\ x > splitX => BaseSampler(x, time) = JsNaN
            /\ x <= splitX => BaseSampler(x, time) = JsNumber(BaseY(x, time))
            /\ x < splitX => /\ U1Sampler(x, time) = JsNaN
                             /\ U2Sampler(x, time) = JsNaN
                             /\ U1Y(x, time) = U1Y(splitX, time)
                             /\ U2Y(x, time) = U2Y(splitX, time)
            /\ x >= splitX => /\ U1Sampler(x, time) = JsNumber(U1Y(x, time))
                              /\ U2Sampler(x, time) = JsNumber(U2Y(x, time))

C11_Witness ==
    /\ page = "dual" /\ renders >= 1 /\ time > 0
    /\ splitX = 600 /\ xMax = 1000
    /\ U1Sampler(300, time) = JsNaN /\ BaseSampler(900, time) = JsNaN
    /\ IsFinite(U1Sampler(900, time).kind)

\* C12: in DualUniverseCanvas the split point lies in the sampled domain
\* in every state the sliders reach: 0 <= splitX <= xMax.
C12_SplitInDomain == (page = "dual") => (0 <= splitX /\ splitX <= xMax)

\* C13: no sample evaluation divides by zero or by a non-positive number.
\* For every xMax and splitX the sliders reach, xMax = splitX and
\* xMax < splitX included, the denominator of the phase term of u1Y and u2Y
\* is at least 1e-6, and the denominator xMax of baseY and x2px is positive.
C13_DenominatorsPositive ==
    (page = "dual") => (PhaseDenom >= 1 /\ xMax > 0)

C13_Witness ==
    /\ page = "dual" /\ dualFrame.kind = "ran" /\ renders >= 1
    /\ xMax = 600 /\ splitX = 900 /\ PhaseDenom = 1

\* C14: the settings round-trip through local storage. When storage works,
\* every setting (baseHz, beatHz, gain, wave, preset, pan, duration) has
\* after the mount that follows a reload the value it had before the
\* reload.
C14_RoundTrip ==
    (page = "settings" /\ storageMode = "ok" /\ lastReload.ran) =>
        lastReload.lost = {}

\* C15: storage failures never surface. No exception leaves a handler or
\* an effect; and where the storage methods throw, loadNum and loadStr
\* return their fallback, save returns normally and leaves the storage as
\* it is, and a mount gives the default settings.
C15_StorageFailuresSilent ==
    (page \in FieldPages) =>
        /\ ~fieldErr
        /\ (storageMode = "throws") =>
              /\ \A k \in {"baseHz", "gain", "pan", "duration"} :
                    \A fb \in {0, 35, 17400} :
                        LoadNum(storage, storageMode, k, fb)
                            = [threw |-> FALSE, v |-> fb]
              /\ \A k \in {"wave", "preset"} :
                    LoadStr(storage, storageMode, k, "sine")
                        = [threw |-> FALSE, v |-> "sine"]
              /\ \A k \in {"baseHz", "gain"} :
                    Save(storage, storageMode, k, NumStr(cfg[k]))
                        = [threw |-> FALSE, store |-> storage]
              /\ storage \in InitialStores
              /\ LET mt == Mount(storage, storageMode)
                 IN  /\ ~mt.threw /\ mt.store = storage
                     /\ mt.cfg = DefaultCfg /\ mt.duration = 0

C15_Witness ==
    /\ page = "settings" /\ storageMode = "throws"
    /\ lastReload.ran /\ "gain" \in lastReload.lost
    /\ storage = StaleStore /\ cfg = DefaultCfg

\* C19: the preset effect. Selecting a preset of the table sets baseHz and
\* beatHz (and wave and pan, which every preset of the table defines) to the
\* preset's values and leaves isOn, gain, duration and the audio session as
\* they are; with a preset name that is not in the table the effect changes
\* nothing, so a mount keeps the settings it loaded.
C19_PresetEffect ==
    /\ [][SelectPreset =>
            /\ cfg'.preset # cfg.preset /\ cfg'.preset \in DOMAIN Presets
            /\ cfg'.baseHz = Presets[cfg'.preset].base
            /\ cfg'.beatHz = Presets[cfg'.preset].beat
            /\ cfg'.wave = Presets[cfg'.preset].wave
            /\ cfg'.pan = Presets[cfg'.preset].pan
            /\ cfg'.gain = cfg.gain
            /\ UNCHANGED <<isOn, duration, audio, stopAt>>]_vars
    /\ [][(Reload /\ storageMode = "ok"
              /\ cfg.preset \notin DOMAIN Presets) =>
            (cfg' = cfg /\ duration' = duration)]_vars
    /\ []((page = "settings" /\ cfg.preset \notin DOMAIN Presets) =>
            /\ PresetEffect(cfg) = cfg
            /\ Mount(storage, storageMode).cfg
                  = Mount(storage, storageMode).loaded)

C19_Witness ==
    /\ page = "settings" /\ ~lastReload.ran
    /\ isOn /\ duration = 1
    /\ cfg.preset = "Sleep Aid" /\ cfg.baseHz = Presets["Sleep Aid"].base
    /\ cfg.pan = -10 /\ cfg.gain = 50

\* C19: a reload with a stored preset name that is not in the table.
C19_UnknownWitness ==
    /\ page = "settings" /\ lastReload.ran /\ lastReload.lost = {}
    /\ cfg.preset = "Retired" /\ cfg.gain = 50

\* C16: auto-stop. A session started with duration > 0 sets stopAt to the
\* clock plus the duration and an interval that checks it; once the clock
\* has reached stopAt while the session is on, isOn eventually becomes
\* false; and the stop made by the interval runs the teardown of a manual
\* stop: every audio ref and the animation frame ref are null after it.
C16_AutoStop ==
    /\ [][(ToggleOn /\ ~isOn /\ duration > 0) =>
            (isOn' /\ stopAt' = now + duration
                /\ intervals' = intervals + 1)]_vars
    /\ [][(IntervalFires /\ isOn /\ ~isOn') =>
            LET r == TeardownTwice(audio, fsRafRef, fsQueue)
            IN  /\ stopAt # 0 /\ now >= stopAt
                /\ audio' = r.audio /\ fsRafRef' = r.rafRef
                /\ fsQueue' = r.queue /\ tdLast' = TeardownRecord(r)
                /\ (~r.threw => (audio' = NoAudio /\ fsRafRef' = 0))]_vars
    /\ ((page = "field" /\ isOn /\ stopAt # 0 /\ now >= stopAt)
            ~> ~isOn)

C16_Witness ==
    /\ page = "field" /\ isOn /\ duration > 0
    /\ stopAt # 0 /\ now >= stopAt /\ intervals > 0
    /\ audio = LiveAudio /\ ENABLED IntervalFires

\* C17: drawFrame changes no parameter. A drawFrame callback leaves f1, f2,
\* phase, noise, jam, glow and running as they are; t and lastTick are the
\* only variables of the script it may change.
C17_DrawFrameKeepsParams ==
    [][DrawFrame =>
        /\ UNCHANGED <<f1, f2, phase, noise, jam, glow, running>>
        /\ UNCHANGED <<chatPlaying, chatTimer, timers>>]_vars

C17_Witness ==
    /\ page = "app" /\ frame.kind = "drew" /\ frame.t = 1 /\ t = 2
    /\ running /\ jam /\ noise = NoiseJam /\ lastTick # 0

\* C18: the starting point. With the default parameters and t = 0 the
\* first point of the trace (i = 0) and the dot both lie A * sin(phase) to
\* the right of the centre, whatever Math.random() returns; and in
\* DualUniverseCanvas baseY(0, 0) = baseAmp * sin(basePhase).
C18_StartingPoint ==
    /\ (page = "app" /\ f1 = F1Default /\ f2 = F2Default
            /\ phase = PhaseDefault /\ noise = NoiseDefault) =>
          \A A \in ScopeAmps :
              /\ \A u \in RandomValues :
                    TraceDx(A, 0, 0, u) = A * Sin(PhaseDefault)
              /\ DotDx(A, 0) = A * Sin(PhaseDefault)
    /\ (page = "dual") => BaseY(0, 0) = MulMilli(BaseAmp, Sin(BasePhase))

C18_Witness ==
    /\ page = "app" /\ frame.kind = "drew" /\ frame.t = 0 /\ t = 1
    /\ f1 = F1Default /\ f2 = F2Default /\ phase = PhaseDefault
    /\ noise = NoiseDefault
    /\ TraceDx(100, 0, 0, 999) = 100 * Sin(PhaseDefault)
    /\ TraceDx(100, 0, 1, 999) # 100 * Sin(PhaseDefault)
    /\ Sin(PhaseDefault) > 0

\* C20: cleanup of the animation loop. The cleanup of the effect cancels
\* the pending frame, so at most one tick callback is pending at any time,
\* it belongs to the current effect instance and rafRef holds its id, and
\* none is pending after the unmount; a tick of an instance that was
\* cleaned up would return without changing anything.
C20_OneTickPending ==
    /\ []((page = "dual") =>
            /\ Cardinality(rafQueue) <= 1
            /\ \A cb \in rafQueue : cb.live /\ cb.id = rafRef
            /\ Cleanup(rafQueue, rafRef) = {}
            /\ compMounted => rafQueue # {}
            /\ ~compMounted => rafQueue = {})
    /\ [][(DualTick /\ dualFrame'.kind = "stale") =>
            /\ UNCHANGED <<time, playing, rafRef, renders, ctxScale,
                           canvasW, canvasH>>
            /\ rafQueue' \subseteq rafQueue]_vars
    /\ [][(page = "dual" /\ rafQueue' # rafQueue) =>
            Cardinality(rafQueue' \ rafQueue) <= 1]_vars

C20_Witness ==
    /\ page = "dual" /\ ~compMounted /\ rafQueue = {}
    /\ rafRef # 0 /\ dualFrame.kind = "ran" /\ dualFrame.scheduled
    /\ renders >= 1 /\ time > 0

\* C21: auto-stop timers do not outlive their session. In every state of
\* FieldSignalApp no auto-stop interval is active while isOn is false, and
\* at most one is active while isOn is true.
C21_TimersEndWithSession ==
    (page \in FieldPages) =>
        /\ ~isOn => intervals = 0
        /\ isOn => intervals <= 1

\* C23: chat typing. When the typing of a message finishes (the tick that
\* sets the timer of step), the bubble of the message shows the complete
\* text: text.slice(0, k) with k = text.length.
C23_TypedTextComplete ==
    (page \in {"app", "chat"}) =>
        \A tm \in timers : tm.kind = "step" => tm.shown = tm.len

\* C22: one chat timer. In every state reached by Play, Regenerate, Clear
\* and the firing of chat timers at most one chat timer (tick or step) is
\* pending, chatTimer holds its id and a sequence is playing while it is
\* pending, so clear(), which cancels chatTimer, leaves no chat timer
\* pending.
C22_OneChatTimer ==
    /\ []((page \in {"app", "chat"}) =>
            /\ Cardinality(timers) <= 1
            /\ \A tm \in timers : tm.id = chatTimer /\ chatPlaying
            /\ Cleared(timers, chatTimer) = {})
    /\ [][ClearBtn => (timers' = {} /\ ~chatPlaying')]_vars
    /\ [][(PlayBtn \/ RegenBtn \/ ChatTimerFires) =>
            Cardinality(timers') <= 1]_vars

C22_Witness ==
    /\ page = "app" /\ chatPlaying
    /\ origin["f1"] = "regen"
    /\ Cardinality(timers) = 1
    /\ \E tm \in timers : tm.kind = "tick" /\ tm.shown >= 1
                               /\ tm.id = chatTimer

\* C24: one oscilloscope frame. In every state reached by Start and Stop,
\* auto-stops and frame callbacks at most one draw callback is pending
\* with requestAnimationFrame, rafRef holds its id, one is pending while a
\* session is on, and none is pending (and rafRef is null) once the effect
\* for isOn = false has run.
C24_OneDrawPending ==
    /\ []((page \in FieldPages) =>
            /\ Cardinality(fsQueue) <= 1
            /\ \A id \in fsQueue : id = fsRafRef
            /\ isOn => fsQueue # {}
            /\ ~isOn => (fsQueue = {} /\ fsRafRef = 0))
    /\ [][FieldDraw => Cardinality(fsQueue') = 1]_vars
    /\ [][((ToggleOn \/ IntervalFires) /\ isOn /\ ~isOn') =>
            fsQueue' = {}]_vars

C24_Witness ==
    /\ page = "field" /\ ~isOn /\ fsQueue = {} /\ fsRafRef = 0
    /\ tdLast.ran /\ tdLast.allNull /\ audio = NoAudio
    /\ dataArray = "array"
    /\ intervals = 0 /\ stopAt # 0 /\ now >= stopAt

\* C25 as stated: in every reachable state of app.js, jam = false implies
\* that the parameters hold their calibrated defaults f1 = 1.2, f2 = 2.3,
\* phase = pi/3, noise = 0.
C25_DefaultsWhenNotJammed ==
    (page = "app" /\ ~jam) =>
        /\ f1 = F1Default /\ f2 = F2Default
        /\ phase = PhaseDefault /\ noise = NoiseDefault

\* C25 as amended: in every reachable state of app.js with jam = false the
\* parameters hold their calibrated defaults, unless Regenerate wrote them
\* last; then noise = 0.1, f1 is in [0.9, 2.0), f2 in [1.4, 3.2) and phase
\* in [0, pi). Regenerate leaves jam as it is.
C25_DefaultsUnlessRegenerated ==
    /\ []((page = "app" /\ ~jam) =>
            IF origin["f1"] = "regen"
            THEN /\ OneOrigin(origin)
                 /\ noise = NoiseRegen
                 /\ f1 \in 90..199 /\ f2 \in 140..319
                 /\ phase \in 0..(PiMilli - 1)
            ELSE /\ \A n \in ParamNames : origin[n] \in {"init", "jam", "cal"}
                 /\ f1 = F1Default /\ f2 = F2Default
                 /\ phase = PhaseDefault /\ noise = NoiseDefault)
    /\ [][RegenBtn => jam' = jam]_vars

C25_Witness ==
    /\ page = "app" /\ ~jam
    /\ OneOrigin(origin) /\ origin["f1"] = "regen"
    /\ noise = NoiseRegen /\ f1 # F1Default /\ f2 # F2Default
    /\ frame.kind = "drew" /\ frame.origin["f1"] = "jam"

====
